---------------------------- MODULE Spec2Model ----------------------------
(***************************************************************************)
(* The two demo programs of the repository, abstract_factory/main.cpp and  *)
(* builder/main.cpp, as one state machine over a heap of objects.          *)
(*                                                                         *)
(* A run is one program (prog) driven by one client: either the program's  *)
(* own main ("main": the statements of main and client_code, in the order  *)
(* of the source, pc being the source line of the next statement) or an    *)
(* arbitrary caller of the same classes ("any": the same statements in any *)
(* order and with any argument).  Every statement is one action, used by   *)
(* both clients.                                                           *)
(*                                                                         *)
(* Addresses are never reused, so a pointer to a destroyed object stays    *)
(* recognisable.  A statement that goes through an indeterminate pointer   *)
(* or a pointer to a destroyed object has undefined behaviour: the model   *)
(* records it in ub with a nondeterministic outcome and follows the run no *)
(* further.                                                                *)
(***************************************************************************)
EXTENDS Integers, Sequences, FiniteSets, TLC

VARIABLES
    prog,              \* "abstract_factory" or "builder": the program that runs
    client,            \* "main" (the program's main) or "any" (an arbitrary caller)
    pc,                \* main: source line of the next statement; 0 otherwise
    exit_status,       \* "none" while running, then "0" or "1"
    ub,                \* "none", or the outcome of undefined behaviour
    cout,              \* the characters the statement just executed wrote to
                       \* std::cout ("" for a statement that writes nothing)
    PLATFORM_WINDOWS,  \* the configuration macros of abstract_factory/main.cpp
    PLATFORM_MACOS,
    heap,              \* address -> [cls, st]: dynamic type and life of the object
    m_text,            \* TextEdit::m_text of each address
    structure,         \* WindowsWindow::structure / MacOSWindow::structure
    window,            \* WindowsWindowBuilder::window / MacOSWindowBuilder::window
    m_builder,         \* WindowCreationManager::m_builder
    local              \* the client's local pointer variables

vars == <<prog, client, pc, exit_status, ub, cout, PLATFORM_WINDOWS,
          PLATFORM_MACOS, heap, m_text, structure, window, m_builder, local>>

-----------------------------------------------------------------------------
(* Bounds *)

\* addresses the heap can hand out in one run
HeapSize == 7
\* objects an arbitrary client allocates in one run
MaxAlloc == 4
\* recipes an arbitrary client runs on one product
MaxRecipes == 2

Addr == 1..HeapSize

\* A pointer that was never set: `WindowApplication *app;`, m_builder after
\* `new WindowCreationManager`, a local that is not in scope.
Indeterminate == 0

\* Arguments an arbitrary client passes.
Texts == {"Hello OS", "abc"}
Titles == {"New Window", "New title"}

-----------------------------------------------------------------------------
(* The heap *)

NoObject == [cls |-> "none", st |-> "unallocated"]

Allocated == {a \in Addr : heap[a].st # "unallocated"}
Live == {a \in Addr : heap[a].st = "live"}

\* the address the n-th further `new` returns (n = 1, 2)
Fresh(n) == Cardinality(Allocated) + n

CanAlloc(n) ==
    Cardinality(Allocated) + n <= (IF client = "main" THEN HeapSize ELSE MaxAlloc)

\* p points to a live object
Valid(p) == p \in Addr /\ heap[p].st = "live"

New(h, a, c) == [h EXCEPT ![a] = [cls |-> c, st |-> "live"]]
Delete(h, a) == [h EXCEPT ![a].st = "freed"]

\* Undefined behaviour: the run may abort or go on with a corrupted state.
Undefined ==
    /\ ub' \in {"crash", "corrupt"}
    /\ UNCHANGED <<prog, client, pc, exit_status, cout, PLATFORM_WINDOWS,
                   PLATFORM_MACOS, heap, m_text, structure, window, m_builder,
                   local>>

-----------------------------------------------------------------------------
(* abstract_factory/main.cpp: products and factories *)

\* A method is an operator of the receiver (self) giving what the call returns
\* or prints and the value of every field it assigns.

WindowsButton_buttonClick(self) == "Windows button was clicked" \o "\n"

MacOSButton_buttonClick(self) == "MacOS button was clicked" \o "\n"

\* Faulty variant: reading hands the text out and leaves the field empty.
WindowsTextEdit_getText_consuming(self) ==
    [ret |-> m_text[self], m_text |-> [m_text EXCEPT ![self] = ""]]

WindowsTextEdit_getText(self) == [ret |-> m_text[self], m_text |-> m_text]

WindowsTextEdit_setText(self, text) ==
    LET stored == [m_text EXCEPT ![self] = text]
    IN  [m_text |-> stored,
         cout |-> "Windows TextEdit text set to " \o "'" \o stored[self] \o "'"
                  \o "\n"]

MacOSTextEdit_getText(self) == [ret |-> m_text[self], m_text |-> m_text]

\* Faulty variant: m_text += text instead of m_text = text.
MacOSTextEdit_setText_appending(self, text) ==
    LET stored == [m_text EXCEPT ![self] = @ \o text]
    IN  [m_text |-> stored,
         cout |-> "MacOS TextEdit text set to " \o "'" \o stored[self] \o "'"
                  \o "\n"]

MacOSTextEdit_setText(self, text) ==
    LET stored == [m_text EXCEPT ![self] = text]
    IN  [m_text |-> stored,
         cout |-> "MacOS TextEdit text set to " \o "'" \o stored[self] \o "'"
                  \o "\n"]

\* the class of the object each factory method news
WindowsWindowApplication_createButton(self) == "WindowsButton"

\* Faulty variant: the Windows factory news the other family's text edit.
WindowsWindowApplication_createTextEdit_mixed(self) == "MacOSTextEdit"

WindowsWindowApplication_createTextEdit(self) == "WindowsTextEdit"

MacOSWindowApplication_createButton(self) == "MacOSButton"

MacOSWindowApplication_createTextEdit(self) == "MacOSTextEdit"

\* Virtual dispatch on the dynamic type of the receiver.
buttonClick(self) ==
    IF heap[self].cls = "WindowsButton"
    THEN WindowsButton_buttonClick(self)
    ELSE MacOSButton_buttonClick(self)

getText(self) ==
    IF heap[self].cls = "WindowsTextEdit"
    THEN WindowsTextEdit_getText(self)
    ELSE MacOSTextEdit_getText(self)

setText(self, text) ==
    IF heap[self].cls = "WindowsTextEdit"
    THEN WindowsTextEdit_setText(self, text)
    ELSE MacOSTextEdit_setText(self, text)

createButton(self) ==
    IF heap[self].cls = "WindowsWindowApplication"
    THEN WindowsWindowApplication_createButton(self)
    ELSE MacOSWindowApplication_createButton(self)

createTextEdit(self) ==
    IF heap[self].cls = "WindowsWindowApplication"
    THEN WindowsWindowApplication_createTextEdit(self)
    ELSE MacOSWindowApplication_createTextEdit(self)

\* #if PLATFORM_WINDOWS ... #elif PLATFORM_MACOS ... #else ... #endif
USED_API ==
    IF PLATFORM_WINDOWS # 0 THEN "Windows"
    ELSE IF PLATFORM_MACOS # 0 THEN "MacOS"
    ELSE "None"

-----------------------------------------------------------------------------
(* The text of the two mains: line -> statement, argument, next line.       *)
(* A call of client_code continues at its first line, its end at the line   *)
(* after the call; next = 0 ends main.                                      *)

Stmt(o, a, n) == [op |-> o, arg |-> a, next |-> n]

FactoryMain ==
    (169 :> Stmt("switch", "", 156)) @@
    (156 :> Stmt("createButton", "", 157)) @@
    (157 :> Stmt("createTextEdit", "", 159)) @@
    (159 :> Stmt("buttonClick", "", 160)) @@
    (160 :> Stmt("setText", "Hello OS", 161)) @@
    (161 :> Stmt("print getText", "", 163)) @@
    (163 :> Stmt("delete button", "", 164)) @@
    (164 :> Stmt("delete textEdit", "", 183)) @@
    (183 :> Stmt("delete app", "", 184)) @@
    (184 :> Stmt("return", "0", 0))

BuilderMain ==
    (183 :> Stmt("new manager", "", 154)) @@
    (154 :> Stmt("new builder", "WindowsWindowBuilder", 155)) @@
    (155 :> Stmt("setBuilder", "", 156)) @@
    (156 :> Stmt("createDefaultWindow", "", 157)) @@
    (157 :> Stmt("getWindow", "", 158)) @@
    (158 :> Stmt("printStructure", "", 159)) @@
    (159 :> Stmt("delete window", "", 160)) @@
    (160 :> Stmt("reset", "", 161)) @@
    (161 :> Stmt("createWindowWithTitle", "New title", 162)) @@
    (162 :> Stmt("getWindow", "", 163)) @@
    (163 :> Stmt("printStructure", "", 164)) @@
    (164 :> Stmt("delete builder", "", 168)) @@
    (168 :> Stmt("new builder", "MacOSWindowBuilder", 169)) @@
    (169 :> Stmt("setBuilder", "", 170)) @@
    (170 :> Stmt("createDefaultWindow", "", 171)) @@
    (171 :> Stmt("getWindow", "", 172)) @@
    (172 :> Stmt("printStructure", "", 173)) @@
    (173 :> Stmt("delete window", "", 174)) @@
    (174 :> Stmt("reset", "", 175)) @@
    (175 :> Stmt("createWindowWithTitle", "New title", 176)) @@
    (176 :> Stmt("getWindow", "", 177)) @@
    (177 :> Stmt("printStructure", "", 178)) @@
    (178 :> Stmt("delete builder", "", 185)) @@
    (185 :> Stmt("delete manager", "", 186)) @@
    (186 :> Stmt("return", "0", 0))

Code == IF prog = "abstract_factory" THEN FactoryMain ELSE BuilderMain

\* The client is about to run statement o of program p with argument a.
Runs(p, o, a) ==
    /\ prog = p
    /\ ub = "none"
    /\ exit_status = "none"
    /\ IF client = "main"
       THEN pc \in DOMAIN Code /\ Code[pc].op = o /\ Code[pc].arg = a
       ELSE TRUE

Advance == pc' = IF client = "main" THEN Code[pc].next ELSE pc

-----------------------------------------------------------------------------
(* abstract_factory/main.cpp: the statements of main and client_code *)

\* Faulty variant: the default case returns 0.
Switch_returning_0 ==
    /\ Runs("abstract_factory", "switch", "")
    /\ IF USED_API = "None"
       THEN /\ cout' = "None of platforms is chosen!"
            /\ exit_status' = "0"
            /\ pc' = 0
            /\ UNCHANGED <<heap, local>>
       ELSE /\ CanAlloc(1)
            /\ local.app = Indeterminate
            /\ heap' = New(heap, Fresh(1),
                           IF USED_API = "Windows"
                           THEN "WindowsWindowApplication"
                           ELSE "MacOSWindowApplication")
            /\ local' = [local EXCEPT !.app = Fresh(1)]
            /\ Advance
            /\ cout' = ""
            /\ UNCHANGED <<exit_status>>
    /\ UNCHANGED <<prog, client, ub, PLATFORM_WINDOWS, PLATFORM_MACOS, m_text,
                   structure, window, m_builder>>

\* switch (USED_API) { ... }
Switch ==
    /\ Runs("abstract_factory", "switch", "")
    /\ IF USED_API = "None"
       THEN /\ cout' = "None of platforms is chosen!"
            /\ exit_status' = "1"
            /\ pc' = 0
            /\ UNCHANGED <<heap, local>>
       ELSE /\ CanAlloc(1)
            /\ local.app = Indeterminate
            /\ heap' = New(heap, Fresh(1),
                           IF USED_API = "Windows"
                           THEN "WindowsWindowApplication"
                           ELSE "MacOSWindowApplication")
            /\ local' = [local EXCEPT !.app = Fresh(1)]
            /\ Advance
            /\ cout' = ""
            /\ UNCHANGED <<exit_status>>
    /\ UNCHANGED <<prog, client, ub, PLATFORM_WINDOWS, PLATFORM_MACOS, m_text,
                   structure, window, m_builder>>

\* Button *button = application->createButton();
CreateButton ==
    /\ Runs("abstract_factory", "createButton", "")
    /\ IF Valid(local.app)
       THEN /\ CanAlloc(1)
            /\ heap' = New(heap, Fresh(1), createButton(local.app))
            /\ local' = [local EXCEPT !.button = Fresh(1)]
            /\ Advance
            /\ cout' = ""
            /\ UNCHANGED <<prog, client, exit_status, ub, PLATFORM_WINDOWS, PLATFORM_MACOS, m_text, structure,
                           window, m_builder>>
       ELSE Undefined

\* TextEdit *textEdit = application->createTextEdit();
CreateTextEdit ==
    /\ Runs("abstract_factory", "createTextEdit", "")
    /\ IF Valid(local.app)
       THEN /\ CanAlloc(1)
            /\ heap' = New(heap, Fresh(1), createTextEdit(local.app))
            /\ local' = [local EXCEPT !.textEdit = Fresh(1)]
            /\ Advance
            /\ cout' = ""
            /\ UNCHANGED <<prog, client, exit_status, ub, PLATFORM_WINDOWS, PLATFORM_MACOS, m_text, structure,
                           window, m_builder>>
       ELSE Undefined

\* button->buttonClick();
ButtonClick ==
    /\ Runs("abstract_factory", "buttonClick", "")
    /\ IF Valid(local.button)
       THEN /\ cout' = buttonClick(local.button)
            /\ Advance
            /\ UNCHANGED <<prog, client, exit_status, ub, PLATFORM_WINDOWS,
                           PLATFORM_MACOS, heap, m_text, structure, window,
                           m_builder, local>>
       ELSE Undefined

\* textEdit->setText(text);
SetTextWith(text) ==
    /\ Runs("abstract_factory", "setText", text)
    /\ IF Valid(local.textEdit)
       THEN /\ m_text' = setText(local.textEdit, text).m_text
            /\ cout' = setText(local.textEdit, text).cout
            /\ Advance
            /\ UNCHANGED <<prog, client, exit_status, ub, PLATFORM_WINDOWS,
                           PLATFORM_MACOS, heap, structure, window, m_builder,
                           local>>
       ELSE Undefined

SetText == \E text \in Texts : SetTextWith(text)

\* std::cout << "Text edit have text -> " << textEdit->getText() << std::endl;
PrintText ==
    /\ Runs("abstract_factory", "print getText", "")
    /\ IF Valid(local.textEdit)
       THEN /\ m_text' = getText(local.textEdit).m_text
            /\ cout' = "Text edit have text -> " \o getText(local.textEdit).ret
                        \o "\n"
            /\ Advance
            /\ UNCHANGED <<prog, client, exit_status, ub, PLATFORM_WINDOWS,
                           PLATFORM_MACOS, heap, structure, window, m_builder,
                           local>>
       ELSE Undefined

\* delete p; for a product or a factory: the object's fields die with it
DeleteObject(p) ==
    IF Valid(p)
    THEN /\ heap' = Delete(heap, p)
         /\ m_text' = [m_text EXCEPT ![p] = ""]
         /\ Advance
         /\ cout' = ""
         /\ UNCHANGED <<prog, client, exit_status, ub, PLATFORM_WINDOWS,
                        PLATFORM_MACOS, structure, window, m_builder, local>>
    ELSE Undefined

\* delete button;
DeleteButton ==
    /\ Runs("abstract_factory", "delete button", "")
    /\ DeleteObject(local.button)

\* delete textEdit;
DeleteTextEdit ==
    /\ Runs("abstract_factory", "delete textEdit", "")
    /\ DeleteObject(local.textEdit)

\* delete app;
DeleteApp ==
    /\ Runs("abstract_factory", "delete app", "")
    /\ DeleteObject(local.app)

\* return 0; at the end of either main
Return ==
    /\ client = "main"
    /\ Runs(prog, "return", "0")
    /\ exit_status' = "0"
    /\ Advance
    /\ cout' = ""
    /\ UNCHANGED <<prog, client, ub, PLATFORM_WINDOWS, PLATFORM_MACOS,
                   heap, m_text, structure, window, m_builder, local>>

-----------------------------------------------------------------------------
(* builder/main.cpp: builders and director *)

\* A build step is an operator of the receiver and of the structure fields s
\* it finds, giving the structure fields it leaves: window->structure += ...

WindowsWindowBuilder_createNativeWindow(self, s) ==
    [s EXCEPT ![window[self]] = @ \o "Window: Standard Windows; "]

WindowsWindowBuilder_addMenubar(self, s) ==
    [s EXCEPT ![window[self]] = @ \o "Menubar: Windows default; "]

WindowsWindowBuilder_setTitle(self, title, s) ==
    [s EXCEPT ![window[self]] = @ \o ("Window title: " \o title \o ";")]

WindowsWindowBuilder_setDefaultBackgroundColor(self, s) ==
    [s EXCEPT ![window[self]] = @ \o "Background color: Windows default; "]

MacOSWindowBuilder_createNativeWindow(self, s) ==
    [s EXCEPT ![window[self]] = @ \o "Window: Standard MacOS; "]

MacOSWindowBuilder_addMenubar(self, s) ==
    [s EXCEPT ![window[self]] = @ \o "Menubar: MacOS default; "]

MacOSWindowBuilder_setTitle(self, title, s) ==
    [s EXCEPT ![window[self]] = @ \o ("Window title: " \o title \o ";")]

MacOSWindowBuilder_setDefaultBackgroundColor(self, s) ==
    [s EXCEPT ![window[self]] = @ \o "Background color: MacOS default; "]

\* Faulty variant: reset() keeps the window it has.
WindowsWindowBuilder_reset_reusing(self, h, a) ==
    [heap |-> IF window[self] \in Addr THEN h ELSE New(h, a, "WindowsWindow"),
     structure |-> structure,
     window |-> IF window[self] \in Addr THEN window
                ELSE [window EXCEPT ![self] = a]]

\* reset() with heap h, `new` returning address a: window = new ...Window;
WindowsWindowBuilder_reset(self, h, a) ==
    [heap |-> New(h, a, "WindowsWindow"),
     structure |-> [structure EXCEPT ![a] = ""],
     window |-> [window EXCEPT ![self] = a]]

MacOSWindowBuilder_reset(self, h, a) ==
    [heap |-> New(h, a, "MacOSWindow"),
     structure |-> [structure EXCEPT ![a] = ""],
     window |-> [window EXCEPT ![self] = a]]

WindowsWindowBuilder_getWindow(self) ==
    [ret |-> window[self], window |-> window, structure |-> structure]

\* Faulty variant: getWindow() hands the product out and clears it.
MacOSWindowBuilder_getWindow_clearing(self) ==
    [ret |-> window[self], window |-> window,
     structure |-> [structure EXCEPT ![window[self]] = ""]]

MacOSWindowBuilder_getWindow(self) ==
    [ret |-> window[self], window |-> window, structure |-> structure]

\* Dispatch on the dynamic type of the builder.
createNativeWindow(self, s) ==
    IF heap[self].cls = "WindowsWindowBuilder"
    THEN WindowsWindowBuilder_createNativeWindow(self, s)
    ELSE MacOSWindowBuilder_createNativeWindow(self, s)

addMenubar(self, s) ==
    IF heap[self].cls = "WindowsWindowBuilder"
    THEN WindowsWindowBuilder_addMenubar(self, s)
    ELSE MacOSWindowBuilder_addMenubar(self, s)

setTitle(self, title, s) ==
    IF heap[self].cls = "WindowsWindowBuilder"
    THEN WindowsWindowBuilder_setTitle(self, title, s)
    ELSE MacOSWindowBuilder_setTitle(self, title, s)

setDefaultBackgroundColor(self, s) ==
    IF heap[self].cls = "WindowsWindowBuilder"
    THEN WindowsWindowBuilder_setDefaultBackgroundColor(self, s)
    ELSE MacOSWindowBuilder_setDefaultBackgroundColor(self, s)

reset(self, h, a) ==
    IF h[self].cls = "WindowsWindowBuilder"
    THEN WindowsWindowBuilder_reset(self, h, a)
    ELSE MacOSWindowBuilder_reset(self, h, a)

getWindow(self) ==
    IF heap[self].cls = "WindowsWindowBuilder"
    THEN WindowsWindowBuilder_getWindow(self)
    ELSE MacOSWindowBuilder_getWindow(self)

\* Faulty variant: setBuilder forgets to store its argument.
setBuilder_dropped(self, builder) == m_builder

\* WindowCreationManager: the fields each method leaves
setBuilder(self, builder) == [m_builder EXCEPT ![self] = builder]

\* Faulty variant: the menubar is added before the native window.
createDefaultWindow_menubar_first(self) ==
    LET b  == m_builder[self]
        s1 == addMenubar(b, structure)
        s2 == createNativeWindow(b, s1)
        s3 == setTitle(b, "New Window", s2)
    IN  setDefaultBackgroundColor(b, s3)

createDefaultWindow(self) ==
    LET b  == m_builder[self]
        s1 == createNativeWindow(b, structure)
        s2 == addMenubar(b, s1)
        s3 == setTitle(b, "New Window", s2)
    IN  setDefaultBackgroundColor(b, s3)

\* Faulty variant: the title is set after the background colour.
createWindowWithTitle_title_last(self, title) ==
    LET b  == m_builder[self]
        s1 == createNativeWindow(b, structure)
        s2 == addMenubar(b, s1)
        s3 == setDefaultBackgroundColor(b, s2)
    IN  setTitle(b, title, s3)

createWindowWithTitle(self, title) ==
    LET b  == m_builder[self]
        s1 == createNativeWindow(b, structure)
        s2 == addMenubar(b, s1)
        s3 == setTitle(b, title, s2)
    IN  setDefaultBackgroundColor(b, s3)

\* The director can run a recipe: it, its builder and the builder's window live.
Drivable(m) == Valid(m) /\ Valid(m_builder[m]) /\ Valid(window[m_builder[m]])

\* An arbitrary client runs at most MaxRecipes recipes on one product (each
\* recipe appends more than 100 characters).
CanBuild(w) == client = "main" \/ Len(structure[w]) < MaxRecipes * 100

-----------------------------------------------------------------------------
(* builder/main.cpp: the statements of main and client_code *)

\* WindowCreationManager *manager = new WindowCreationManager;
NewManager ==
    /\ Runs("builder", "new manager", "")
    /\ CanAlloc(1)
    /\ local.manager = Indeterminate
    /\ heap' = New(heap, Fresh(1), "WindowCreationManager")
    /\ m_builder' = [m_builder EXCEPT ![Fresh(1)] = Indeterminate]
    /\ local' = [local EXCEPT !.manager = Fresh(1)]
    /\ Advance
    /\ cout' = ""
    /\ UNCHANGED <<prog, client, exit_status, ub, PLATFORM_WINDOWS,
                   PLATFORM_MACOS, m_text, structure, window>>

\* ...WindowBuilder *builder = new ...WindowBuilder;  (the constructor resets)
NewBuilder ==
    \E c \in {"WindowsWindowBuilder", "MacOSWindowBuilder"} :
        /\ Runs("builder", "new builder", c)
        /\ CanAlloc(2)
        /\ LET r == reset(Fresh(1), New(heap, Fresh(1), c), Fresh(2))
           IN  /\ heap' = r.heap
               /\ structure' = r.structure
               /\ window' = r.window
        /\ local' = [local EXCEPT !.builder = Fresh(1)]
        /\ Advance
        /\ cout' = ""
        /\ UNCHANGED <<prog, client, exit_status, ub, PLATFORM_WINDOWS,
                       PLATFORM_MACOS, m_text, m_builder>>

\* manager->setBuilder(builder);
SetBuilder ==
    /\ Runs("builder", "setBuilder", "")
    /\ IF Valid(local.manager) /\ local.builder # Indeterminate
       THEN /\ m_builder' = setBuilder(local.manager, local.builder)
            /\ Advance
            /\ cout' = ""
            /\ UNCHANGED <<prog, client, exit_status, ub, PLATFORM_WINDOWS, PLATFORM_MACOS, heap, m_text,
                           structure, window, local>>
       ELSE Undefined

\* manager->createDefaultWindow();
CreateDefaultWindow ==
    /\ Runs("builder", "createDefaultWindow", "")
    /\ IF Drivable(local.manager)
       THEN /\ CanBuild(window[m_builder[local.manager]])
            /\ structure' = createDefaultWindow(local.manager)
            /\ Advance
            /\ cout' = ""
            /\ UNCHANGED <<prog, client, exit_status, ub, PLATFORM_WINDOWS, PLATFORM_MACOS, heap, m_text,
                           window, m_builder, local>>
       ELSE Undefined

\* manager->createWindowWithTitle(title);
CreateWindowWithTitleOf(title) ==
    /\ Runs("builder", "createWindowWithTitle", title)
    /\ IF Drivable(local.manager)
       THEN /\ CanBuild(window[m_builder[local.manager]])
            /\ structure' = createWindowWithTitle(local.manager, title)
            /\ Advance
            /\ cout' = ""
            /\ UNCHANGED <<prog, client, exit_status, ub, PLATFORM_WINDOWS,
                           PLATFORM_MACOS, heap, m_text, window, m_builder,
                           local>>
       ELSE Undefined

CreateWindowWithTitle == \E title \in Titles : CreateWindowWithTitleOf(title)

\* window = builder->getWindow();
GetWindow ==
    /\ Runs("builder", "getWindow", "")
    /\ IF Valid(local.builder)
       THEN /\ local' = [local EXCEPT !.window = getWindow(local.builder).ret]
            /\ window' = getWindow(local.builder).window
            /\ structure' = getWindow(local.builder).structure
            /\ Advance
            /\ cout' = ""
            /\ UNCHANGED <<prog, client, exit_status, ub, PLATFORM_WINDOWS, PLATFORM_MACOS, heap, m_text,
                           m_builder>>
       ELSE Undefined

\* window->printStructure();
PrintStructure ==
    /\ Runs("builder", "printStructure", "")
    /\ IF Valid(local.window)
       THEN /\ cout' = structure[local.window] \o "\n"
            /\ Advance
            /\ UNCHANGED <<prog, client, exit_status, ub, PLATFORM_WINDOWS,
                           PLATFORM_MACOS, heap, m_text, structure, window,
                           m_builder, local>>
       ELSE Undefined

\* delete window;
DeleteWindow ==
    /\ Runs("builder", "delete window", "")
    /\ IF Valid(local.window)
       THEN /\ heap' = Delete(heap, local.window)
            /\ structure' = [structure EXCEPT ![local.window] = ""]
            /\ Advance
            /\ cout' = ""
            /\ UNCHANGED <<prog, client, exit_status, ub, PLATFORM_WINDOWS, PLATFORM_MACOS, m_text, window,
                           m_builder, local>>
       ELSE Undefined

\* builder->reset();
Reset ==
    /\ Runs("builder", "reset", "")
    /\ IF Valid(local.builder)
       THEN /\ CanAlloc(1)
            /\ LET r == reset(local.builder, heap, Fresh(1))
               IN  /\ heap' = r.heap
                   /\ structure' = r.structure
                   /\ window' = r.window
            /\ Advance
            /\ cout' = ""
            /\ UNCHANGED <<prog, client, exit_status, ub, PLATFORM_WINDOWS, PLATFORM_MACOS, m_text, m_builder,
                           local>>
       ELSE Undefined

\* Faulty variant: the destructor does not delete the builder's window.
DeleteBuilder_leaking_window ==
    /\ Runs("builder", "delete builder", "")
    /\ IF Valid(local.builder)
       THEN /\ heap' = Delete(heap, local.builder)
            /\ window' = [window EXCEPT ![local.builder] = Indeterminate]
            /\ Advance
            /\ cout' = ""
            /\ UNCHANGED <<prog, client, exit_status, ub, PLATFORM_WINDOWS,
                           PLATFORM_MACOS, m_text, structure, m_builder, local>>
       ELSE Undefined

\* delete builder;  (~...WindowBuilder() deletes the builder's window)
DeleteBuilder ==
    /\ Runs("builder", "delete builder", "")
    /\ IF Valid(local.builder) /\ Valid(window[local.builder])
       THEN /\ heap' = Delete(Delete(heap, window[local.builder]), local.builder)
            /\ structure' = [structure EXCEPT ![window[local.builder]] = ""]
            /\ window' = [window EXCEPT ![local.builder] = Indeterminate]
            /\ Advance
            /\ cout' = ""
            /\ UNCHANGED <<prog, client, exit_status, ub, PLATFORM_WINDOWS, PLATFORM_MACOS, m_text, m_builder,
                           local>>
       ELSE Undefined

\* delete manager;
DeleteManager ==
    /\ Runs("builder", "delete manager", "")
    /\ IF Valid(local.manager)
       THEN /\ heap' = Delete(heap, local.manager)
            /\ m_builder' = [m_builder EXCEPT ![local.manager] = Indeterminate]
            /\ Advance
            /\ cout' = ""
            /\ UNCHANGED <<prog, client, exit_status, ub, PLATFORM_WINDOWS, PLATFORM_MACOS, m_text, structure,
                           window, local>>
       ELSE Undefined

-----------------------------------------------------------------------------
(* The state machine *)

Init ==
    /\ prog \in {"abstract_factory", "builder"}
    /\ client \in {"main", "any"}
    /\ pc = IF client = "main"
            THEN (IF prog = "abstract_factory" THEN 169 ELSE 183)
            ELSE 0
    /\ exit_status = "none"
    /\ ub = "none"
    /\ cout = ""
    /\ PLATFORM_WINDOWS \in (IF prog = "abstract_factory" THEN {0, 1} ELSE {1})
    /\ PLATFORM_MACOS \in (IF prog = "abstract_factory" THEN {0, 1} ELSE {0})
    /\ heap = [a \in Addr |-> NoObject]
    /\ m_text = [a \in Addr |-> ""]
    /\ structure = [a \in Addr |-> ""]
    /\ window = [a \in Addr |-> Indeterminate]
    /\ m_builder = [a \in Addr |-> Indeterminate]
    /\ local = [app |-> Indeterminate, button |-> Indeterminate,
                textEdit |-> Indeterminate, manager |-> Indeterminate,
                builder |-> Indeterminate, window |-> Indeterminate]

Next ==
    \/ Switch
    \/ CreateButton
    \/ CreateTextEdit
    \/ ButtonClick
    \/ SetText
    \/ PrintText
    \/ DeleteButton
    \/ DeleteTextEdit
    \/ DeleteApp
    \/ Return
    \/ NewManager
    \/ NewBuilder
    \/ SetBuilder
    \/ CreateDefaultWindow
    \/ CreateWindowWithTitle
    \/ GetWindow
    \/ PrintStructure
    \/ DeleteWindow
    \/ Reset
    \/ DeleteBuilder
    \/ DeleteManager

Spec == Init /\ [][Next]_vars

-----------------------------------------------------------------------------
(* Properties *)

FactoryRun == prog = "abstract_factory" /\ ub = "none"
BuilderRun == prog = "builder" /\ ub = "none"
FactoryMainRun == FactoryRun /\ client = "main"
BuilderMainRun == BuilderRun /\ client = "main"

\* the window the director's recipes write to
Target == window[m_builder[local.manager]]

\* The description one recipe appends, by the class of the builder.
ExpectedBuild(builderClass, title) ==
    IF builderClass = "WindowsWindowBuilder"
    THEN "Window: Standard Windows; Menubar: Windows default; Window title: "
         \o title \o ";Background color: Windows default; "
    ELSE "Window: Standard MacOS; Menubar: MacOS default; Window title: "
         \o title \o ";Background color: MacOS default; "

\* a recipe statement of client_code, with either title
Recipe == CreateDefaultWindow \/ CreateWindowWithTitle

(* C1 *)
\* Every object of a factory run belongs to the family USED_API selects: the
\* factory, the button and the text edit the client holds, and the lines main
\* prints for them.
FamilyOK ==
    FactoryRun =>
        /\ \A a \in Allocated :
               heap[a].cls \in {USED_API \o "WindowApplication",
                                USED_API \o "Button", USED_API \o "TextEdit"}
        /\ Valid(local.app) => heap[local.app].cls = USED_API \o "WindowApplication"
        /\ Valid(local.button) => heap[local.button].cls = USED_API \o "Button"
        /\ Valid(local.textEdit) => heap[local.textEdit].cls = USED_API \o "TextEdit"
        /\ (client = "main" /\ pc = 160) => cout = USED_API \o " button was clicked\n"
        /\ (client = "main" /\ pc = 161) =>
               cout = USED_API \o " TextEdit text set to 'Hello OS'\n"

\* C1: in every step of a run the products match the selected family, and
\* the selection itself does not change.
C1_FamilyMatchesSelection == [][FamilyOK' /\ USED_API' = USED_API]_vars

\* main has created both MacOS products and is about to click the button.
C1_Witness ==
    /\ FactoryMainRun /\ pc = 159 /\ USED_API = "MacOS"
    /\ Valid(local.button) /\ heap[local.button].cls = "MacOSButton"
    /\ Valid(local.textEdit) /\ heap[local.textEdit].cls = "MacOSTextEdit"

(* C2 *)
\* C2: with the selector None main prints the diagnostic and returns 1
\* without allocating anything or entering client_code; with Windows or MacOS
\* main runs on until it returns 0.
C2_NoneExitsWithOne ==
    FactoryMainRun =>
        /\ USED_API = "None" =>
               /\ Allocated = {}
               /\ pc \in {169, 0}
               /\ exit_status \in {"none", "1"}
               /\ pc = 0 =>
                      exit_status = "1" /\ cout = "None of platforms is chosen!"
        /\ USED_API # "None" => exit_status \in {"none", "0"}
        /\ exit_status = "none" => ENABLED Next
        /\ exit_status # "none" => pc = 0

\* main has returned 1 after the diagnostic.
C2_Witness ==
    /\ FactoryMainRun /\ USED_API = "None"
    /\ exit_status = "1" /\ cout = "None of platforms is chosen!"

(* C3 *)
\* C3: createDefaultWindow on a builder whose product is empty leaves exactly
\* the four fragments of that builder's platform, in the order native window,
\* menubar, title "New Window", background.
C3_DefaultWindowFragments ==
    [][(CreateDefaultWindow /\ Drivable(local.manager) /\ structure[Target] = "")
        => structure'[Target] =
               ExpectedBuild(heap[m_builder[local.manager]].cls, "New Window")]_vars

\* A MacOS builder holds the default window built on an empty product.
C3_Witness ==
    /\ BuilderRun
    /\ \E b \in Live :
           /\ heap[b].cls = "MacOSWindowBuilder"
           /\ Valid(window[b])
           /\ structure[window[b]] =
                  "Window: Standard MacOS; Menubar: MacOS default; "
                  \o "Window title: New Window;Background color: MacOS default; "

(* C4 *)
\* main is past createWindowWithTitle("New title") of either block
AfterTitledBuild ==
    BuilderMainRun /\ pc \in {162, 163, 164, 176, 177, 178}

\* C4: reset() gives the builder a new, live, empty product; a following
\* createWindowWithTitle("New title") leaves exactly the four fragments of that
\* build, as main shows after its own reset.
C4_ResetStartsEmptyProduct ==
    [][/\ (Reset /\ Valid(local.builder)) =>
              /\ window'[local.builder] \notin Allocated
              /\ heap'[window'[local.builder]].st = "live"
              /\ structure'[window'[local.builder]] = ""
       /\ (/\ CreateWindowWithTitleOf("New title")
           /\ Drivable(local.manager)
           /\ structure[Target] = "") =>
              structure'[Target] =
                  ExpectedBuild(heap[m_builder[local.manager]].cls, "New title")
       /\ AfterTitledBuild' =>
              structure'[window'[local'.builder]] =
                  ExpectedBuild(heap'[local'.builder].cls, "New title")]_vars

\* main's Windows builder, reset after a first build, holds the titled window.
C4_Witness ==
    /\ BuilderMainRun /\ pc = 163
    /\ heap[local.builder].cls = "WindowsWindowBuilder"
    /\ structure[local.window] =
           "Window: Standard Windows; Menubar: Windows default; "
           \o "Window title: New title;Background color: Windows default; "
    /\ \E a \in Addr : heap[a].cls = "WindowsWindow" /\ heap[a].st = "freed"

(* C5 *)
\* C5: getWindow() hands out the builder's product and changes nothing; every
\* recipe appends its four fragments to whatever the product already holds.
C5_AccumulatesWithoutReset ==
    [][/\ (GetWindow /\ Valid(local.builder)) =>
              /\ local'.window = window[local.builder]
              /\ window' = window
              /\ structure' = structure
              /\ heap' = heap
       /\ (CreateDefaultWindow /\ Drivable(local.manager)) =>
              structure'[Target] = structure[Target] \o
                  ExpectedBuild(heap[m_builder[local.manager]].cls, "New Window")
       /\ \A title \in Titles :
              (CreateWindowWithTitleOf(title) /\ Drivable(local.manager)) =>
                  structure'[Target] = structure[Target] \o
                      ExpectedBuild(heap[m_builder[local.manager]].cls, title)]_vars

\* The client holds a product on which two recipes ran with no reset between.
C5_Witness ==
    /\ BuilderRun
    /\ Valid(local.builder)
    /\ local.window = window[local.builder]
    /\ Valid(local.window)
    /\ structure[local.window] =
           ExpectedBuild(heap[local.builder].cls, "New Window")
           \o ExpectedBuild(heap[local.builder].cls, "New title")

(* C6 *)
\* C6: in every state in which the director can run a recipe,
\* createWindowWithTitle("New Window") and createDefaultWindow() leave the
\* same descriptions.
C6_RecipesAgree ==
    BuilderRun =>
        \A m \in Live :
            (heap[m].cls = "WindowCreationManager" /\ Drivable(m)) =>
                createWindowWithTitle(m, "New Window") = createDefaultWindow(m)

\* The director can run a recipe on a product that already holds a build.
C6_Witness ==
    /\ BuilderRun
    /\ Drivable(local.manager)
    /\ structure[Target] # ""
    /\ createDefaultWindow(local.manager)[Target] # structure[Target]

(* C7 *)
\* C7: reading the text changes no stored text, so the next getText() on the
\* same text edit returns what this one returned.
C7_GetTextKeepsText ==
    [][(PrintText /\ Valid(local.textEdit)) =>
           /\ m_text' = m_text
           /\ local' = local
           /\ heap' = heap
           /\ getText(local.textEdit).ret' = getText(local.textEdit).ret
           /\ cout' = "Text edit have text -> " \o getText(local.textEdit).ret'
                    \o "\n"]_vars

\* A text that was set has been read back from a Windows text edit.
C7_Witness ==
    /\ FactoryRun
    /\ Valid(local.textEdit)
    /\ heap[local.textEdit].cls = "WindowsTextEdit"
    /\ m_text[local.textEdit] = "abc"
    /\ cout = "Text edit have text -> abc\n"

(* C8 *)
\* the statements of builder main that go through the builder's window
TouchesBuilderWindow == {156, 161, 164, 170, 175, 178}

\* C8: main never runs into undefined behaviour (no use after delete, no
\* second delete, no indeterminate pointer), returns with every object it
\* allocated destroyed, and in the builder demo the window the client deleted
\* is replaced by reset() before the builder's window is touched again.
C8_EveryObjectFreedOnce ==
    client = "main" =>
        /\ ub = "none"
        /\ exit_status = "0" =>
               /\ Live = {}
               /\ Cardinality(Allocated) =
                      (IF prog = "builder" THEN 7 ELSE 3)
        /\ exit_status = "1" => Allocated = {}
        /\ (prog = "builder" /\ pc \in {160, 174}) =>
               /\ local.window = window[local.builder]
               /\ heap[local.window].st = "freed"
        /\ (prog = "builder" /\ pc \in TouchesBuilderWindow) =>
               /\ Valid(local.builder)
               /\ Valid(window[local.builder])

\* builder main has returned: seven objects allocated, none live.
C8_Witness ==
    /\ BuilderMainRun /\ exit_status = "0"
    /\ Cardinality(Allocated) = 7 /\ Live = {}

(* C9 *)
\* main is about to run a recipe
AtRecipe == BuilderMainRun /\ pc \in {156, 161, 170, 175}

\* C9: setBuilder makes its argument the director's builder; in main every
\* recipe finds the director's builder set to the live builder of the block;
\* and a recipe changes the description of that builder's window and nothing
\* else.
C9_DirectorDrivesActiveBuilder ==
    [][/\ (SetBuilder /\ Valid(local.manager) /\ local.builder # Indeterminate)
              => m_builder'[local.manager] = local.builder
       /\ AtRecipe' =>
              /\ Drivable(local.manager)'
              /\ m_builder'[local'.manager] = local'.builder
       /\ (Recipe /\ Drivable(local.manager)) =>
              /\ heap' = heap
              /\ window' = window
              /\ m_builder' = m_builder
              /\ m_text' = m_text
              /\ local' = local
              /\ \A a \in Addr \ {Target} : structure'[a] = structure[a]
              /\ structure'[Target] # structure[Target]]_vars

\* A recipe has run on the director's builder while another live window keeps
\* the description an earlier build gave it.
C9_Witness ==
    /\ BuilderRun
    /\ Drivable(local.manager)
    /\ structure[Target] # ""
    /\ \E a \in Live \ {Target} :
           heap[a].cls = heap[Target].cls /\ structure[a] # ""

(* C10 *)
\* C10: a new text edit holds the empty text; setText(t) makes getText()
\* return t; no other statement changes the text of a text edit that stays
\* alive; and main clicks the button before it sets the text and reads back
\* "Hello OS".
C10_GetTextReturnsLastSetText ==
    [][/\ (CreateTextEdit /\ Valid(local.app)) =>
              getText(local.textEdit).ret' = ""
       /\ \A text \in Texts :
              (SetTextWith(text) /\ Valid(local.textEdit)) =>
                  /\ getText(local.textEdit).ret' = text
                  /\ \A a \in Addr \ {local.textEdit} : m_text'[a] = m_text[a]
       /\ (FactoryRun /\ ~SetText) =>
              \A a \in Live :
                  heap'[a].st = "live" => m_text'[a] = m_text[a]
       /\ (FactoryMainRun' /\ pc' = 160) =>
              /\ cout' = USED_API \o " button was clicked\n"
              /\ m_text'[local'.textEdit] = ""
       /\ (FactoryMainRun' /\ pc' = 163) =>
              cout' = "Text edit have text -> Hello OS\n"]_vars

\* main has printed the text it read back from a MacOS text edit.
C10_Witness ==
    /\ FactoryMainRun /\ pc = 163 /\ USED_API = "MacOS"
    /\ cout = "Text edit have text -> Hello OS\n"
    /\ m_text[local.textEdit] = "Hello OS"

=============================================================================
